---- MODULE Spec2Model ----
(***************************************************************************)
(* Model of scripts/ensure_model_metadata.py: the metadata patcher for      *)
(* Piper ONNX models.  Strings the program computes with (language codes,   *)
(* file names, metadata values) are sequences of one-character strings so   *)
(* that split, lower, title and str are computed rather than assumed.       *)
(* Metadata keys are never computed with and stay plain strings.            *)
(* onnx.load and onnx.save are atomic library calls that either succeed or  *)
(* raise leaving the file as it was.                                        *)
(***************************************************************************)
EXTENDS Integers, Sequences, FiniteSets

VARIABLES
    file,        \* metadata_props of the model file on disk: sequence of [key, value]
    argc,        \* len(sys.argv) of each invocation
    model_path,  \* sys.argv[1]
    cfg,         \* per invocation: the config file named by sys.argv[2]
    pc,          \* per invocation: position in main()
    metadata,    \* per invocation: main's local `metadata`
    missing,     \* per invocation: main's local `missing`
    mdl,         \* per invocation: patch_model's in-memory model (its metadata_props)
    added,       \* per invocation: keys patch_model appended to mdl
    exitCode,    \* per invocation: process exit status (-1 while running)
    saveCalls,   \* per invocation: number of onnx.save calls made in the current run
    saved,       \* per invocation: TRUE iff onnx.save overwrote the file in the current run
    fileAtStart, \* per invocation: the file's table when the current run started
    run,         \* index of the current run of the sequential scenario
    hist,        \* finished runs: sequence of [exit, saved, before, after]
    fileInit,    \* the file's table before any invocation
    result       \* output of the pure-function scenarios

vars == <<file, argc, model_path, cfg, pc, metadata, missing, mdl, added,
          exitCode, saveCalls, saved, fileAtStart, run, hist, fileInit, result>>

----------------------------------------------------------------------------
(* Bounds *)

\* longest language code drawn for config.language.code
MaxCodeLen == 3
\* longest extension-stripped base name drawn for the model file
MaxNameLen == 4
\* number of successive runs of the program on the same model/config pair
MaxRuns == 2

----------------------------------------------------------------------------
(* Strings *)

UpperChars == <<"A","B","C","D","E","F","G","H","I","J","K","L","M",
                "N","O","P","Q","R","S","T","U","V","W","X","Y","Z">>
LowerChars == <<"a","b","c","d","e","f","g","h","i","j","k","l","m",
                "n","o","p","q","r","s","t","u","v","w","x","y","z">>

IsUpper(c) == \E i \in 1..26 : UpperChars[i] = c
IsLower(c) == \E i \in 1..26 : LowerChars[i] = c
IsCased(c) == IsUpper(c) \/ IsLower(c)

\* str.lower() on one character
LowerChar(c) == IF IsUpper(c) THEN LowerChars[CHOOSE i \in 1..26 : UpperChars[i] = c] ELSE c
\* str.upper() on one character
UpperChar(c) == IF IsLower(c) THEN UpperChars[CHOOSE i \in 1..26 : LowerChars[i] = c] ELSE c

\* str.lower()
Lower(s) == [i \in 1..Len(s) |-> LowerChar(s[i])]

\* str.title(): a cased character is upper-cased when the previous character
\* is not cased and lower-cased otherwise
Title(s) == [i \in 1..Len(s) |->
               IF i > 1 /\ IsCased(s[i-1]) THEN LowerChar(s[i]) ELSE UpperChar(s[i])]

\* sep in s
Contains(s, sep) == \E i \in 1..Len(s) : s[i] = sep

\* s.find(sep), 0 when absent (1-based)
Find(s, sep) == IF Contains(s, sep)
                THEN CHOOSE i \in 1..Len(s) : s[i] = sep /\ \A j \in 1..(i-1) : s[j] # sep
                ELSE 0

\* s.rfind(sep), 0 when absent (1-based)
RFind(s, sep) == IF Contains(s, sep)
                 THEN CHOOSE i \in 1..Len(s) : s[i] = sep /\ \A j \in (i+1)..Len(s) : s[j] # sep
                 ELSE 0

\* s.split(sep) for a one-character separator: the list of all segments
RECURSIVE Split(_, _)
Split(s, sep) ==
    IF ~Contains(s, sep) THEN <<s>>
    ELSE LET i == Find(s, sep)
         IN  <<SubSeq(s, 1, i-1)>> \o Split(SubSeq(s, i+1, Len(s)), sep)

\* str(n) for an integer
Digits == <<"0","1","2","3","4","5","6","7","8","9">>
RECURSIVE StrNat(_)
StrNat(n) == IF n < 10 THEN <<Digits[n+1]>>
             ELSE StrNat(n \div 10) \o <<Digits[(n % 10) + 1]>>
StrInt(n) == IF n < 0 THEN <<"-">> \o StrNat(-n) ELSE StrNat(n)

\* os.path.basename (posixpath): the text after the last "/"
Basename(p) == SubSeq(p, RFind(p, "/") + 1, Len(p))

\* os.path.splitext(p)[0] (genericpath._splitext): cut at the last "." when
\* it comes after the last "/" and some character other than "." lies
\* between them
SplitExtRoot(p) ==
    LET sepIndex == RFind(p, "/")
        dotIndex == RFind(p, ".")
    IN  IF dotIndex > sepIndex
           /\ \E k \in (sepIndex+1)..(dotIndex-1) : p[k] # "."
        THEN SubSeq(p, 1, dotIndex-1)
        ELSE p

----------------------------------------------------------------------------
(* JSON values of the config, as json.load returns them.  t is the Python   *)
(* type ("absent" when the key is not in its object), n the payload of an   *)
(* int, s the payload of a str, b the payload of a bool.                    *)

Absent   == [t |-> "absent", n |-> 0, s |-> <<>>, b |-> FALSE]
JNull    == [t |-> "null",   n |-> 0, s |-> <<>>, b |-> FALSE]
JInt(k)  == [t |-> "int",    n |-> k, s |-> <<>>, b |-> FALSE]
JStr(x)  == [t |-> "str",    n |-> 0, s |-> x,    b |-> FALSE]
JBool(x) == [t |-> "bool",   n |-> 0, s |-> <<>>, b |-> x]

\* Python truth value of a JSON scalar
Truthy(v) == CASE v.t = "str"  -> v.s # <<>>
               [] v.t = "int"  -> v.n # 0
               [] v.t = "bool" -> v.b
               [] OTHER        -> FALSE

\* str(v)
PyStr(v) == CASE v.t = "str"  -> v.s
              [] v.t = "int"  -> StrInt(v.n)
              [] v.t = "bool" -> IF v.b THEN <<"T","r","u","e">> ELSE <<"F","a","l","s","e">>
              [] OTHER        -> <<"N","o","n","e">>

\* d.get(key, default) where field is the value stored under key
Get(field, default) == IF field.t = "absent" THEN default ELSE field

----------------------------------------------------------------------------
(* Program constants *)

REQUIRED_METADATA == {"sample_rate", "n_speakers", "language", "comment", "has_espeak", "voice"}

RECOMMENDED_METADATA == {"add_blank", "frontend", "model_type"}

LanguagePairs ==
    {
        <<<<"a","f">>, <<"A","f","r","i","k","a","a","n","s">>>>,
        <<<<"a","m">>, <<"A","m","h","a","r","i","c">>>>,
        <<<<"a","r">>, <<"A","r","a","b","i","c">>>>,
        <<<<"b","n">>, <<"B","e","n","g","a","l","i">>>>,
        <<<<"c","a">>, <<"C","a","t","a","l","a","n">>>>,
        <<<<"c","s">>, <<"C","z","e","c","h">>>>,
        <<<<"c","y">>, <<"W","e","l","s","h">>>>,
        <<<<"d","a">>, <<"D","a","n","i","s","h">>>>,
        <<<<"d","e">>, <<"G","e","r","m","a","n">>>>,
        <<<<"e","l">>, <<"G","r","e","e","k">>>>,
        <<<<"e","n">>, <<"E","n","g","l","i","s","h">>>>,
        <<<<"e","s">>, <<"S","p","a","n","i","s","h">>>>,
        <<<<"e","t">>, <<"E","s","t","o","n","i","a","n">>>>,
        <<<<"f","a">>, <<"P","e","r","s","i","a","n">>>>,
        <<<<"f","i">>, <<"F","i","n","n","i","s","h">>>>,
        <<<<"f","r">>, <<"F","r","e","n","c","h">>>>,
        <<<<"g","l">>, <<"G","a","l","i","c","i","a","n">>>>,
        <<<<"g","u">>, <<"G","u","j","a","r","a","t","i">>>>,
        <<<<"h","a">>, <<"H","a","u","s","a">>>>,
        <<<<"h","e">>, <<"H","e","b","r","e","w">>>>,
        <<<<"h","i">>, <<"H","i","n","d","i">>>>,
        <<<<"h","r">>, <<"C","r","o","a","t","i","a","n">>>>,
        <<<<"h","u">>, <<"H","u","n","g","a","r","i","a","n">>>>,
        <<<<"i","d">>, <<"I","n","d","o","n","e","s","i","a","n">>>>,
        <<<<"i","s">>, <<"I","c","e","l","a","n","d","i","c">>>>,
        <<<<"i","t">>, <<"I","t","a","l","i","a","n">>>>,
        <<<<"j","a">>, <<"J","a","p","a","n","e","s","e">>>>,
        <<<<"j","v">>, <<"J","a","v","a","n","e","s","e">>>>,
        <<<<"k","a">>, <<"G","e","o","r","g","i","a","n">>>>,
        <<<<"k","k">>, <<"K","a","z","a","k","h">>>>,
        <<<<"k","m">>, <<"K","h","m","e","r">>>>,
        <<<<"k","n">>, <<"K","a","n","n","a","d","a">>>>,
        <<<<"k","o">>, <<"K","o","r","e","a","n">>>>,
        <<<<"l","b">>, <<"L","u","x","e","m","b","o","u","r","g","i","s","h">>>>,
        <<<<"l","t">>, <<"L","i","t","h","u","a","n","i","a","n">>>>,
        <<<<"l","v">>, <<"L","a","t","v","i","a","n">>>>,
        <<<<"m","l">>, <<"M","a","l","a","y","a","l","a","m">>>>,
        <<<<"m","n">>, <<"M","o","n","g","o","l","i","a","n">>>>,
        <<<<"m","r">>, <<"M","a","r","a","t","h","i">>>>,
        <<<<"m","s">>, <<"M","a","l","a","y">>>>,
        <<<<"m","y">>, <<"B","u","r","m","e","s","e">>>>,
        <<<<"n","e">>, <<"N","e","p","a","l","i">>>>,
        <<<<"n","l">>, <<"D","u","t","c","h">>>>,
        <<<<"n","o">>, <<"N","o","r","w","e","g","i","a","n">>>>,
        <<<<"p","a">>, <<"P","u","n","j","a","b","i">>>>,
        <<<<"p","l">>, <<"P","o","l","i","s","h">>>>,
        <<<<"p","t">>, <<"P","o","r","t","u","g","u","e","s","e">>>>,
        <<<<"r","o">>, <<"R","o","m","a","n","i","a","n">>>>,
        <<<<"r","u">>, <<"R","u","s","s","i","a","n">>>>,
        <<<<"s","k">>, <<"S","l","o","v","a","k">>>>,
        <<<<"s","l">>, <<"S","l","o","v","e","n","i","a","n">>>>,
        <<<<"s","o">>, <<"S","o","m","a","l","i">>>>,
        <<<<"s","r">>, <<"S","e","r","b","i","a","n">>>>,
        <<<<"s","v">>, <<"S","w","e","d","i","s","h">>>>,
        <<<<"s","w">>, <<"S","w","a","h","i","l","i">>>>,
        <<<<"t","a">>, <<"T","a","m","i","l">>>>,
        <<<<"t","e">>, <<"T","e","l","u","g","u">>>>,
        <<<<"t","h">>, <<"T","h","a","i">>>>,
        <<<<"t","r">>, <<"T","u","r","k","i","s","h">>>>,
        <<<<"u","k">>, <<"U","k","r","a","i","n","i","a","n">>>>,
        <<<<"u","r">>, <<"U","r","d","u">>>>,
        <<<<"v","i">>, <<"V","i","e","t","n","a","m","e","s","e">>>>,
        <<<<"y","o">>, <<"Y","o","r","u","b","a">>>>,
        <<<<"z","h">>, <<"C","h","i","n","e","s","e">>>>
    }

\* LANGUAGE_MAP.get(iso_code, default)
LANGUAGE_MAP_get(iso_code, default) ==
    IF \E e \in LanguagePairs : e[1] = iso_code
    THEN (CHOOSE e \in LanguagePairs : e[1] = iso_code)[2]
    ELSE default

----------------------------------------------------------------------------
(* derive_language_and_voice *)

\* the empty dict that config.get("language", {}) and config.get("audio", {})
\* default to
EmptyLang  == [t |-> "obj", code |-> Absent]
EmptyAudio == [t |-> "obj", sample_rate |-> Absent]

\* "Try config first": iso_code and region after the config block; raised
\* when code is a truthy value without a split method
ConfigCode(language) ==
    LET lang == Get(language, EmptyLang)
        code == IF lang.t = "obj" THEN Get(lang.code, JStr(<<>>)) ELSE JStr(<<>>)
    IN  IF lang.t = "obj" /\ Truthy(code)
        THEN IF code.t # "str"
             THEN [raised |-> TRUE, iso_code |-> <<>>, region |-> <<>>]
             ELSE LET parts == Split(code.s, "_")
                  IN  [raised   |-> FALSE,
                       iso_code |-> Lower(parts[1]),
                       region   |-> IF Len(parts) > 1 THEN Lower(parts[2]) ELSE <<>>]
        ELSE [raised |-> FALSE, iso_code |-> <<>>, region |-> <<>>]

\* a fallback that is taken whenever the config gave no region
FilenameFallbackOnRegion(path, c) ==
    IF c.region = <<>>
    THEN LET basename == SplitExtRoot(Basename(path))
         IN  IF Contains(basename, "_")
             THEN LET parts == Split(basename, "_")
                  IN  [c EXCEPT !.iso_code = Lower(parts[1]),
                                !.region   = Lower(Split(parts[2], "-")[1])]
             ELSE c
    ELSE c

\* a fallback that splits the base name on its first "_" only
FilenameFallbackFirstSplit(path, c) ==
    IF c.iso_code = <<>>
    THEN LET basename == SplitExtRoot(Basename(path))
         IN  IF Contains(basename, "_")
             THEN LET i    == Find(basename, "_")
                      rest == SubSeq(basename, i+1, Len(basename))
                  IN  [c EXCEPT !.iso_code = Lower(SubSeq(basename, 1, i-1)),
                                !.region   = Lower(Split(rest, "-")[1])]
             ELSE c
    ELSE c

\* "Fall back to filename": iso_code and region after the file-name block
FilenameFallback(path, c) ==
    IF c.iso_code = <<>>
    THEN LET basename == SplitExtRoot(Basename(path))
         IN  IF Contains(basename, "_")
             THEN LET parts == Split(basename, "_")
                  IN  [c EXCEPT !.iso_code = Lower(parts[1]),
                                !.region   = IF Len(parts) > 1
                                             THEN Lower(Split(parts[2], "-")[1])
                                             ELSE c.region]
             ELSE c
    ELSE c

\* iso_code after `if not iso_code: iso_code = "en"`
DefaultIso(iso_code) == IF iso_code = <<>> THEN <<"e","n">> ELSE iso_code

\* voice = f"{iso_code}-{region}" if region else iso_code
Voice(iso_code, region) == IF region # <<>> THEN iso_code \o <<"-">> \o region ELSE iso_code

derive_language_and_voice(path, config) ==
    LET c == ConfigCode(config.language)
    IN  IF c.raised
        THEN [raised |-> TRUE, language |-> <<>>, voice |-> <<>>,
              parsed_iso |-> <<>>, region |-> <<>>]
        ELSE LET f        == FilenameFallback(path, c)
                 iso_code == DefaultIso(f.iso_code)
             IN  [raised     |-> FALSE,
                  language   |-> LANGUAGE_MAP_get(iso_code, Title(iso_code)),
                  voice      |-> Voice(iso_code, f.region),
                  parsed_iso |-> f.iso_code,
                  region     |-> f.region]

----------------------------------------------------------------------------
(* build_metadata *)

\* metadata.items() order: the insertion order of the dict literal
KeyOrder == <<"sample_rate", "n_speakers", "language", "comment", "has_espeak",
              "voice", "add_blank", "frontend", "model_type">>

TargetKeys == {KeyOrder[i] : i \in 1..Len(KeyOrder)}

NoMetadata == [k \in TargetKeys |-> Absent]

\* the dict literal returned by build_metadata
MetadataDict(path, config, lv) ==
    [raised |-> FALSE,
     md |-> [k \in TargetKeys |->
              CASE k = "sample_rate" -> JStr(PyStr(Get(Get(config.audio, EmptyAudio).sample_rate, JInt(22050))))
                [] k = "n_speakers"  -> JStr(PyStr(Get(config.num_speakers, JInt(1))))
                [] k = "language"    -> JStr(lv.language)
                [] k = "comment"     -> JStr(<<"p","i","p","e","r">>)
                [] k = "has_espeak"  -> JStr(<<"1">>)
                [] k = "voice"       -> JStr(lv.voice)
                [] k = "add_blank"   -> JStr(<<"1">>)
                [] k = "frontend"    -> Get(config.phoneme_type, JStr(<<"e","s","p","e","a","k">>))
                [] OTHER             -> JStr(<<"v","i","t","s">>)]]

\* raised: config or config["audio"] has no get method, or
\* derive_language_and_voice raised
build_metadata(path, config) ==
    IF config.t # "obj" \/ Get(config.audio, EmptyAudio).t # "obj"
    THEN [raised |-> TRUE, md |-> NoMetadata]
    ELSE LET lv == derive_language_and_voice(path, config)
         IN  IF lv.raised
             THEN [raised |-> TRUE, md |-> NoMetadata]
             ELSE MetadataDict(path, config, lv)

----------------------------------------------------------------------------
(* The metadata table of a model: mdl.metadata_props, a list of entries *)

Keys(props) == {props[i].key : i \in 1..Len(props)}

\* {prop.key: prop.value for prop in mdl.metadata_props}: the last entry of
\* a key gives its value
ValueOf(props, k) ==
    props[CHOOSE i \in 1..Len(props) :
            props[i].key = k /\ \A j \in (i+1)..Len(props) : props[j].key # k].value

\* check_metadata(model_path) on a file that loads
check_metadata(props) == [k \in Keys(props) |-> ValueOf(props, k)]

\* number of entries of key k
Count(props, k) == Cardinality({i \in 1..Len(props) : props[i].key = k})

\* a loop that assigns every derived value, replacing entries that exist
RECURSIVE PatchLoopOverwrite(_, _, _, _, _)
PatchLoopOverwrite(props, existing_keys, md, i, done) ==
    IF i > Len(KeyOrder) THEN [raised |-> FALSE, props |-> props, added |-> done]
    ELSE LET key == KeyOrder[i]
         IN  IF md[key].t # "str"
             THEN [raised |-> TRUE, props |-> props, added |-> done]
             ELSE IF key \in existing_keys
                  THEN PatchLoopOverwrite(
                         [n \in 1..Len(props) |->
                            IF props[n].key = key
                            THEN [key |-> key, value |-> md[key].s] ELSE props[n]],
                         existing_keys, md, i+1, Append(done, key))
                  ELSE PatchLoopOverwrite(
                         Append(props, [key |-> key, value |-> md[key].s]),
                         existing_keys, md, i+1, Append(done, key))

\* a loop that adds only the keys of REQUIRED_METADATA
RECURSIVE PatchLoopRequiredOnly(_, _, _, _, _)
PatchLoopRequiredOnly(props, existing_keys, md, i, done) ==
    IF i > Len(KeyOrder) THEN [raised |-> FALSE, props |-> props, added |-> done]
    ELSE LET key == KeyOrder[i]
         IN  IF key \notin existing_keys /\ key \in REQUIRED_METADATA
             THEN IF md[key].t # "str"
                  THEN [raised |-> TRUE, props |-> props, added |-> done]
                  ELSE PatchLoopRequiredOnly(
                         Append(props, [key |-> key, value |-> md[key].s]),
                         existing_keys, md, i+1, Append(done, key))
             ELSE PatchLoopRequiredOnly(props, existing_keys, md, i+1, done)

\* a loop that stops after the first key it adds
RECURSIVE PatchLoopOneKey(_, _, _, _, _)
PatchLoopOneKey(props, existing_keys, md, i, done) ==
    IF i > Len(KeyOrder) \/ done # <<>>
    THEN [raised |-> FALSE, props |-> props, added |-> done]
    ELSE LET key == KeyOrder[i]
         IN  IF key \notin existing_keys
             THEN IF md[key].t # "str"
                  THEN [raised |-> TRUE, props |-> props, added |-> done]
                  ELSE PatchLoopOneKey(
                         Append(props, [key |-> key, value |-> md[key].s]),
                         existing_keys, md, i+1, Append(done, key))
             ELSE PatchLoopOneKey(props, existing_keys, md, i+1, done)

\* a loop that tests membership in the growing list instead of existing_keys
\* and appends a second entry for the first key
RECURSIVE PatchLoopDuplicate(_, _, _, _, _)
PatchLoopDuplicate(props, existing_keys, md, i, done) ==
    IF i > Len(KeyOrder) THEN [raised |-> FALSE, props |-> props, added |-> done]
    ELSE LET key == KeyOrder[i]
         IN  IF key \notin existing_keys
             THEN IF md[key].t # "str"
                  THEN [raised |-> TRUE, props |-> props, added |-> done]
                  ELSE PatchLoopDuplicate(
                         IF done = <<>>
                         THEN props \o << [key |-> key, value |-> md[key].s],
                                          [key |-> key, value |-> md[key].s] >>
                         ELSE Append(props, [key |-> key, value |-> md[key].s]),
                         existing_keys, md, i+1, Append(done, key))
             ELSE PatchLoopDuplicate(props, existing_keys, md, i+1, done)

\* patch_model's loop `for key, value in metadata.items()` from position i:
\* mdl.metadata_props.add() appends an entry; prop.value = value raises
\* TypeError when value is not a str
RECURSIVE PatchLoop(_, _, _, _, _)
PatchLoop(props, existing_keys, md, i, done) ==
    IF i > Len(KeyOrder) THEN [raised |-> FALSE, props |-> props, added |-> done]
    ELSE LET key == KeyOrder[i]
         IN  IF key \notin existing_keys
             THEN IF md[key].t # "str"
                  THEN [raised |-> TRUE,
                        props  |-> Append(props, [key |-> key, value |-> <<>>]),
                        added  |-> done]
                  ELSE PatchLoop(Append(props, [key |-> key, value |-> md[key].s]),
                                 existing_keys, md, i+1, Append(done, key))
             ELSE PatchLoop(props, existing_keys, md, i+1, done)

\* a difference taken against the required keys only
MissingKeysRequired(md, existing) == REQUIRED_METADATA \ DOMAIN existing

\* main: missing = all_target_keys - existing.keys()
MissingKeys(md, existing) == DOMAIN md \ DOMAIN existing

----------------------------------------------------------------------------
(* Inputs *)

SeqsUpTo(S, n) == UNION {[1..k -> S] : k \in 0..n}

\* the config files of the run scenarios
ObjConfig(audio, num_speakers, language, phoneme_type) ==
    [t |-> "obj", audio |-> audio, num_speakers |-> num_speakers,
     language |-> language, phoneme_type |-> phoneme_type]

NoAudio == [t |-> "absent", sample_rate |-> Absent]
NoLang  == [t |-> "absent", code |-> Absent]
Audio(v) == [t |-> "obj", sample_rate |-> v]
Lang(v)  == [t |-> "obj", code |-> v]

EmptyConfig == ObjConfig(NoAudio, Absent, NoLang, Absent)

FullConfig == ObjConfig(Audio(JInt(16000)), JInt(2),
                        Lang(JStr(<<"e","n","_","U","S">>)), JStr(<<"t","e","x","t">>))

ListConfig == [EmptyConfig EXCEPT !.t = "list"]

ReadableConfig(json) == [state |-> "ok", json |-> json]

RunConfigs ==
    { [state |-> "unreadable", json |-> EmptyConfig],
      [state |-> "invalid",    json |-> EmptyConfig],
      ReadableConfig(ListConfig),
      ReadableConfig(EmptyConfig),
      ReadableConfig(FullConfig),
      ReadableConfig([EmptyConfig EXCEPT !.phoneme_type = JInt(5)]),
      ReadableConfig([EmptyConfig EXCEPT !.audio = [t |-> "int", sample_rate |-> Absent]]),
      ReadableConfig([EmptyConfig EXCEPT !.language = Lang(JInt(7))]) }

ConcConfigs == { ReadableConfig(EmptyConfig), ReadableConfig(FullConfig) }

RunPath == <<"v","/","f","r","_","F","R","-","a",".","o">>

\* the value of every entry the file holds before the first run
Custom == <<"x">>

\* the file's table for a set of keys, in an order other than KeyOrder
TableOf(S) ==
    LET n   == Len(KeyOrder)
        rev == [i \in 1..n |-> KeyOrder[n + 1 - i]]
        sel == SelectSeq(rev, LAMBDA k : k \in S)
    IN  [i \in 1..Len(sel) |-> [key |-> sel[i], value |-> Custom]]

InitialTables == {TableOf(S) : S \in SUBSET TargetKeys}

----------------------------------------------------------------------------
(* One invocation of the program, p *)

Exit(p, code) ==
    /\ pc' = [pc EXCEPT ![p] = "done"]
    /\ exitCode' = [exitCode EXCEPT ![p] = code]

\* module level: `import onnx`, exit 1 when the package is not installed
ImportOnnx(p) ==
    /\ pc[p] = "import"
    /\ \E installed \in BOOLEAN :
         IF installed
         THEN /\ pc' = [pc EXCEPT ![p] = "main"]
              /\ UNCHANGED exitCode
         ELSE Exit(p, 1)
    /\ UNCHANGED <<file, argc, model_path, cfg, metadata, missing, mdl, added,
                   saveCalls, saved, fileAtStart, run, hist, fileInit, result>>

\* main up to `metadata = build_metadata(model_path, config)`: the argument
\* count, read_config and build_metadata; an uncaught exception ends the
\* process with status 1
ReadAndBuild(p) ==
    /\ pc[p] = "main"
    /\ IF argc[p] # 3 \/ cfg[p].state # "ok"
       THEN /\ Exit(p, 1)
            /\ UNCHANGED metadata
       ELSE LET b == build_metadata(model_path, cfg[p].json)
            IN  IF b.raised
                THEN /\ Exit(p, 1)
                     /\ UNCHANGED metadata
                ELSE /\ metadata' = [metadata EXCEPT ![p] = b.md]
                     /\ pc' = [pc EXCEPT ![p] = "check"]
                     /\ UNCHANGED exitCode
    /\ UNCHANGED <<file, argc, model_path, cfg, missing, mdl, added,
                   saveCalls, saved, fileAtStart, run, hist, fileInit, result>>

\* main: existing = check_metadata(model_path); missing; `if missing:`
CheckMetadata(p) ==
    /\ pc[p] = "check"
    /\ \E loads \in BOOLEAN :
         IF ~loads
         THEN /\ Exit(p, 1)
              /\ UNCHANGED missing
         ELSE LET existing == check_metadata(file)
                  m        == MissingKeys(metadata[p], existing)
              IN  /\ missing' = [missing EXCEPT ![p] = m]
                  /\ IF m # {}
                     THEN /\ pc' = [pc EXCEPT ![p] = "patch"]
                          /\ UNCHANGED exitCode
                     ELSE Exit(p, 0)
    /\ UNCHANGED <<file, argc, model_path, cfg, metadata, mdl, added,
                   saveCalls, saved, fileAtStart, run, hist, fileInit, result>>

\* patch_model up to `if added:`: onnx.load, existing_keys and the loop
PatchLoad(p) ==
    /\ pc[p] = "patch"
    /\ \E loads \in BOOLEAN :
         IF ~loads
         THEN /\ Exit(p, 1)
              /\ UNCHANGED <<mdl, added>>
         ELSE LET r == PatchLoop(file, Keys(file), metadata[p], 1, <<>>)
              IN  /\ mdl' = [mdl EXCEPT ![p] = r.props]
                  /\ added' = [added EXCEPT ![p] = r.added]
                  /\ IF r.raised THEN Exit(p, 1)
                     ELSE IF r.added # <<>>
                          THEN /\ pc' = [pc EXCEPT ![p] = "save"]
                               /\ UNCHANGED exitCode
                          ELSE Exit(p, 0)
    /\ UNCHANGED <<file, argc, model_path, cfg, metadata, missing,
                   saveCalls, saved, fileAtStart, run, hist, fileInit, result>>

\* patch_model: onnx.save(mdl, model_path)
Save(p) ==
    /\ pc[p] = "save"
    /\ saveCalls' = [saveCalls EXCEPT ![p] = @ + 1]
    /\ \E writes \in BOOLEAN :
         IF writes
         THEN /\ file' = mdl[p]
              /\ saved' = [saved EXCEPT ![p] = TRUE]
              /\ Exit(p, 0)
         ELSE /\ Exit(p, 1)
              /\ UNCHANGED <<file, saved>>
    /\ UNCHANGED <<argc, model_path, cfg, metadata, missing, mdl, added,
                   fileAtStart, run, hist, fileInit, result>>

\* the program is started again on the same model/config pair
NextRun ==
    /\ pc[1] = "done"
    /\ run < MaxRuns
    /\ run' = run + 1
    /\ hist' = Append(hist, [exit |-> exitCode[1], saved |-> saved[1],
                             before |-> fileAtStart[1], after |-> file])
    /\ pc' = [pc EXCEPT ![1] = "import"]
    /\ exitCode' = [exitCode EXCEPT ![1] = -1]
    /\ metadata' = [metadata EXCEPT ![1] = NoMetadata]
    /\ missing' = [missing EXCEPT ![1] = {}]
    /\ mdl' = [mdl EXCEPT ![1] = <<>>]
    /\ added' = [added EXCEPT ![1] = <<>>]
    /\ saveCalls' = [saveCalls EXCEPT ![1] = 0]
    /\ saved' = [saved EXCEPT ![1] = FALSE]
    /\ fileAtStart' = [fileAtStart EXCEPT ![1] = file]
    /\ UNCHANGED <<file, argc, model_path, cfg, fileInit, result>>

InitProcs(P) ==
    /\ pc = [p \in P |-> "import"]
    /\ metadata = [p \in P |-> NoMetadata]
    /\ missing = [p \in P |-> {}]
    /\ mdl = [p \in P |-> <<>>]
    /\ added = [p \in P |-> <<>>]
    /\ exitCode = [p \in P |-> -1]
    /\ saveCalls = [p \in P |-> 0]
    /\ saved = [p \in P |-> FALSE]
    /\ fileAtStart = [p \in P |-> file]
    /\ run = 1
    /\ hist = <<>>
    /\ fileInit = file

NoResult == [done |-> FALSE]

\* successive runs of one invocation on one model/config pair
Init ==
    /\ file \in InitialTables
    /\ argc \in [{1} -> {2, 3}]
    /\ model_path = RunPath
    /\ cfg \in [{1} -> RunConfigs]
    /\ InitProcs({1})
    /\ result = NoResult

Next ==
    \/ ImportOnnx(1)
    \/ ReadAndBuild(1)
    \/ CheckMetadata(1)
    \/ PatchLoad(1)
    \/ Save(1)
    \/ NextRun

Spec == Init /\ [][Next]_vars

\* two invocations on the same model file, each with its own config
InitConc ==
    /\ file \in InitialTables
    /\ argc = [p \in {1, 2} |-> 3]
    /\ model_path = RunPath
    /\ cfg \in [{1, 2} -> ConcConfigs]
    /\ InitProcs({1, 2})
    /\ result = NoResult

NextConc ==
    \E p \in {1, 2} :
        \/ ImportOnnx(p)
        \/ ReadAndBuild(p)
        \/ CheckMetadata(p)
        \/ PatchLoad(p)
        \/ Save(p)

SpecConc == InitConc /\ [][NextConc]_vars

----------------------------------------------------------------------------
(* derive_language_and_voice and build_metadata applied to drawn inputs *)

CodeAlphabet == {"e", "N", "_"}
NameAlphabet == {"e", "N", "_", "-"}

LangCodes == SeqsUpTo(CodeAlphabet, MaxCodeLen)
BaseNames == SeqsUpTo(NameAlphabet, MaxNameLen)

\* config["language"]: missing, not an object, an object without code, with
\* a code that is not a string, or with a string code
LangFields ==
    {NoLang, [t |-> "str", code |-> Absent], Lang(Absent), Lang(JNull),
     Lang(JInt(0)), Lang(JInt(7))}
    \cup {Lang(JStr(c)) : c \in LangCodes}

\* model paths: with and without a directory, with and without an extension
LangPaths ==
    {d \o b \o e : d \in {<<>>, <<"v", "/">>}, b \in BaseNames, e \in {<<>>, <<".", "o">>}}

InitPure ==
    /\ file = <<>>
    /\ argc = [p \in {1} |-> 3]
    /\ InitProcs({1})
    /\ result = NoResult

InitLang ==
    /\ model_path \in LangPaths
    /\ cfg \in [{1} -> {ReadableConfig([EmptyConfig EXCEPT !.language = l]) : l \in LangFields}]
    /\ InitPure

DeriveLanguageAndVoice ==
    /\ ~result.done
    /\ result' = [done |-> TRUE, out |-> derive_language_and_voice(model_path, cfg[1].json)]
    /\ UNCHANGED <<file, argc, model_path, cfg, pc, metadata, missing, mdl, added,
                   exitCode, saveCalls, saved, fileAtStart, run, hist, fileInit>>

NextLang == DeriveLanguageAndVoice

SpecLang == InitLang /\ [][NextLang]_vars

AudioFields ==
    {NoAudio, Audio(Absent), Audio(JInt(16000)), Audio(JStr(<<"4","4","k">>)),
     Audio(JBool(TRUE)), Audio(JNull),
     [t |-> "int", sample_rate |-> Absent], [t |-> "null", sample_rate |-> Absent]}

SpeakerFields == {Absent, JInt(2), JInt(-3), JStr(<<"2">>), JNull}

PhonemeFields == {Absent, JStr(<<"t","e","x","t">>), JInt(5), JBool(FALSE), JNull}

BuildLangFields ==
    {NoLang, Lang(Absent), Lang(JStr(<<"e","n","_","U","S">>)), Lang(JInt(7)),
     [t |-> "str", code |-> Absent]}

BuildConfigs ==
    {[t |-> ty, audio |-> a, num_speakers |-> n, language |-> l, phoneme_type |-> f] :
        ty \in {"obj", "list"}, a \in AudioFields, n \in SpeakerFields,
        l \in BuildLangFields, f \in PhonemeFields}

InitBuild ==
    /\ model_path \in {RunPath, <<"m", ".", "o">>}
    /\ cfg \in [{1} -> {ReadableConfig(c) : c \in BuildConfigs}]
    /\ InitPure

BuildMetadata ==
    /\ ~result.done
    /\ result' = [done |-> TRUE, out |-> build_metadata(model_path, cfg[1].json)]
    /\ UNCHANGED <<file, argc, model_path, cfg, pc, metadata, missing, mdl, added,
                   exitCode, saveCalls, saved, fileAtStart, run, hist, fileInit>>

NextBuild == BuildMetadata

SpecBuild == InitBuild /\ [][NextBuild]_vars

----------------------------------------------------------------------------
(* Properties of the run scenarios (Spec) *)

\* the target keys the file lacked when the current run started
AbsentAtStart == TargetKeys \ Keys(fileAtStart[1])

Finished == pc[1] = "done"

\* C1: every key present in the model's metadata table before a run has the
\* same value after the run (and at every point of it), also when the
\* derived value for that key differs
C1_NonDestructive ==
    \A k \in Keys(fileAtStart[1]) :
        k \in Keys(file) /\ ValueOf(file, k) = ValueOf(fileAtStart[1], k)

\* a patched model that had custom sample_rate and language: both kept,
\* although the derived values differ, and the other seven keys added with
\* their derived values
C1_Witness ==
    /\ Finished /\ saved[1]
    /\ Keys(fileAtStart[1]) = {"sample_rate", "language"}
    /\ \A k \in {"sample_rate", "language"} :
          ValueOf(file, k) = Custom /\ metadata[1][k].s # Custom
    /\ \A k \in TargetKeys \ {"sample_rate", "language"} :
          k \in Keys(file) /\ ValueOf(file, k) = metadata[1][k].s

\* C2: after a run that ends with exit code 0 the model's metadata table
\* contains all nine target keys
C2_Completeness ==
    Finished /\ exitCode[1] = 0 => TargetKeys \subseteq Keys(file)

\* a successful patch of a table that overlapped the target keys partially
C2_Witness ==
    /\ Finished /\ exitCode[1] = 0 /\ saved[1]
    /\ Keys(fileAtStart[1]) # {} /\ AbsentAtStart # {}

\* C3 as stated: the second of two successive runs performs no save and
\* leaves the file as the first run left it, whatever the first run did
C3_Original ==
    run >= 2 /\ Finished =>
        /\ ~saved[1]
        /\ file = hist[run - 1].after

\* C3 amended: when the first of two successive runs ended with exit code 0,
\* the second performs no save and leaves the file as the first run left it
C3_Idempotence ==
    run >= 2 /\ hist[run - 1].exit = 0 =>
        /\ saveCalls[1] = 0 /\ ~saved[1]
        /\ file = hist[run - 1].after

\* a run that follows a run which patched and saved the model
C3_Witness ==
    /\ run >= 2 /\ Finished /\ exitCode[1] = 0
    /\ hist[run - 1].exit = 0 /\ hist[run - 1].saved
    /\ hist[run - 1].before # hist[run - 1].after

\* C4 as stated: a run saves the file if and only if a target key was absent
\* when it started
C4_Original ==
    Finished => (saved[1] <=> AbsentAtStart # {})

\* C4 amended: a run saves the file only if a target key was absent when it
\* started, a run that ends with exit code 0 saves it if and only if one
\* was absent, and a run that finds all nine keys makes no save call and
\* leaves the file as it was
C4_SavedIffMissing ==
    /\ saved[1] => AbsentAtStart # {}
    /\ Finished /\ exitCode[1] = 0 => (saved[1] <=> AbsentAtStart # {})
    /\ AbsentAtStart = {} => saveCalls[1] = 0 /\ file = fileAtStart[1]

\* a successful run on a model that held all nine keys, none with its
\* derived value
C4_Witness ==
    /\ Finished /\ exitCode[1] = 0 /\ ~saved[1] /\ run = 1
    /\ Keys(fileAtStart[1]) = TargetKeys
    /\ \A k \in TargetKeys : ValueOf(file, k) # metadata[1][k].s

\* C5: at every point of a run the persisted table is the initial table or
\* the initial table followed by one entry for every missing key; an error
\* exit (wrong argument count, unreadable or unparseable config, and every
\* other status-1 exit) leaves it the initial table; save is called at most
\* once per run
C5_AllOrNothing ==
    /\ saveCalls[1] <= 1
    /\ \/ file = fileAtStart[1] /\ ~saved[1]
       \/ /\ saved[1]
          /\ SubSeq(file, 1, Len(fileAtStart[1])) = fileAtStart[1]
          /\ Keys(file) = Keys(fileAtStart[1]) \cup TargetKeys
          /\ Len(file) = Len(fileAtStart[1]) + Cardinality(AbsentAtStart)
    /\ Finished => exitCode[1] \in {0, 1}
    /\ Finished /\ (argc[1] # 3 \/ cfg[1].state # "ok") => exitCode[1] = 1
    /\ Finished /\ exitCode[1] = 1 => file = fileAtStart[1] /\ ~saved[1]

\* a run that added several missing keys to a non-empty table in one save
C5_Witness ==
    /\ Finished /\ saved[1] /\ saveCalls[1] = 1
    /\ Cardinality(AbsentAtStart) \in 2..8
    /\ file # fileAtStart[1]

\* the keys the current run added to the file, each with its derived value
AddedExactlyMissing ==
    /\ missing[1] = DOMAIN metadata[1] \ Keys(fileAtStart[1])
    /\ Keys(file) \ Keys(fileAtStart[1]) = missing[1]
    /\ \A k \in missing[1] : ValueOf(file, k) = metadata[1][k].s

Partition ==
    /\ REQUIRED_METADATA \cap RECOMMENDED_METADATA = {}
    /\ REQUIRED_METADATA \cup RECOMMENDED_METADATA = TargetKeys

\* C9 as stated: in every run in which a key is missing the keys added to
\* the model are exactly the missing ones, with their derived values
C9_Original ==
    /\ Partition
    /\ Finished /\ missing[1] # {} => AddedExactlyMissing

\* C9 amended: in every run that reports a missing key and ends with exit
\* code 0 the keys added to the model are exactly derived-keys minus
\* existing-keys, each with its derived value, whether the missing keys are
\* required, recommended or mixed; the two categories are disjoint and cover
\* the nine derived keys
C9_PartitionOnlyDiagnostic ==
    /\ Partition
    /\ Finished /\ exitCode[1] = 0 /\ missing[1] # {} => AddedExactlyMissing

\* a successful patch whose missing keys were of both categories
C9_Witness ==
    /\ Finished /\ exitCode[1] = 0 /\ saved[1]
    /\ missing[1] \cap REQUIRED_METADATA # {}
    /\ missing[1] \cap RECOMMENDED_METADATA # {}
    /\ missing[1] # TargetKeys

----------------------------------------------------------------------------
(* Properties of two invocations on one file (SpecConc) *)

BothSucceeded == \A p \in {1, 2} : pc[p] = "done" /\ exitCode[p] = 0

FinalTableComplete == BothSucceeded => \A k \in TargetKeys : Count(file, k) = 1

\* C10 as stated: every key present in the file keeps its value in every
\* later state of the file, and the table after both invocations have
\* completed contains each of the nine keys exactly once
C10_Original ==
    /\ [][\A k \in Keys(file) :
            k \in Keys(file') /\ ValueOf(file', k) = ValueOf(file, k)]_vars
    /\ []FinalTableComplete

\* C10 amended: every key present in the file before either invocation
\* keeps its value in every later state, no key is ever removed, no key is
\* ever held twice, and the table after both invocations have completed
\* contains each of the nine keys exactly once; a value written by one
\* invocation may be replaced by the other's save of its stale copy
C10_Interleaving ==
    /\ [][Keys(file) \subseteq Keys(file')]_vars
    /\ [](\A k \in Keys(fileInit) :
            k \in Keys(file) /\ ValueOf(file, k) = ValueOf(fileInit, k))
    /\ [](\A k \in Keys(file) : Count(file, k) = 1)
    /\ []FinalTableComplete

\* both invocations saved, with different configs, a model that had some
\* but not all of the keys
C10_Witness ==
    /\ BothSucceeded /\ saved[1] /\ saved[2]
    /\ cfg[1] # cfg[2]
    /\ Keys(fileInit) # {}

----------------------------------------------------------------------------
(* Properties of the derivations (SpecBuild, SpecLang) *)

\* C6: for every config that is a JSON object build_metadata returns a
\* mapping of exactly the nine keys whose values are all strings, with
\* 22050, 1 and espeak for the empty config
C6_NineStrings ==
    result.done /\ cfg[1].json.t = "obj" =>
        /\ ~result.out.raised
        /\ DOMAIN result.out.md = {"sample_rate", "n_speakers", "language", "comment",
                                   "has_espeak", "voice", "add_blank", "frontend",
                                   "model_type"}
        /\ \A k \in DOMAIN result.out.md : result.out.md[k].t = "str"
        /\ cfg[1].json = EmptyConfig =>
              /\ result.out.md["sample_rate"].s = <<"2","2","0","5","0">>
              /\ result.out.md["n_speakers"].s = <<"1">>
              /\ result.out.md["frontend"].s = <<"e","s","p","e","a","k">>

\* the text of s before its first character in stops (all of s if none)
UpTo(s, stops) ==
    IF \E i \in 1..Len(s) : s[i] \in stops
    THEN SubSeq(s, 1, (CHOOSE i \in 1..Len(s) :
                         s[i] \in stops /\ \A j \in 1..(i-1) : s[j] \notin stops) - 1)
    ELSE s

\* the text of s after its first c (empty if none)
After(s, c) == IF Contains(s, c) THEN SubSeq(s, Find(s, c) + 1, Len(s)) ELSE <<>>

TheLang == cfg[1].json.language

\* config.language is an object with a non-empty string code
HasCode == TheLang.t = "obj" /\ TheLang.code.t = "str" /\ TheLang.code.s # <<>>

\* the config gives no code: language missing or not an object, code
\* missing, empty or null
NoCode == TheLang.t # "obj" \/ TheLang.code.t \in {"absent", "null"}
          \/ (TheLang.code.t = "str" /\ TheLang.code.s = <<>>)

CodeIso    == Lower(UpTo(TheLang.code.s, {"_"}))
CodeRegion == Lower(UpTo(After(TheLang.code.s, "_"), {"_"}))

\* language and voice as the code alone gives them
FromCodeAlone ==
    LET iso == IF CodeIso = <<>> THEN <<"e","n">> ELSE CodeIso
    IN  /\ ~result.out.raised
        /\ result.out.language = LANGUAGE_MAP_get(iso, Title(iso))
        /\ result.out.voice = (IF CodeRegion = <<>> THEN iso
                               ELSE iso \o <<"-">> \o CodeRegion)

BaseName == SplitExtRoot(Basename(model_path))

\* C7 as stated: with a non-empty code, language and voice are those the
\* code alone gives, for every model file name
C7_Original ==
    result.done /\ HasCode => FromCodeAlone

\* C7 amended: the file name is consulted only when the ISO segment of the
\* code (the text before its first "_") is empty, which includes an absent
\* or empty code: with a code whose ISO segment is non-empty, language and
\* voice are those the code alone gives, for every model file name; and
\* when the ISO code is taken from the file name the region is taken from
\* the file name too, never from the code
C7_CodeBeforeFileName ==
    /\ result.done /\ HasCode /\ CodeIso # <<>> => FromCodeAlone
    /\ result.done /\ HasCode /\ CodeIso = <<>> /\ ~Contains(BaseName, "_") =>
          /\ result.out.parsed_iso = <<>>
          /\ result.out.region = CodeRegion
    /\ result.done /\ HasCode /\ CodeIso = <<>> /\ Contains(BaseName, "_") =>
          /\ result.out.parsed_iso = Lower(UpTo(BaseName, {"_"}))
          /\ result.out.region = Lower(UpTo(After(BaseName, "_"), {"_", "-"}))

\* a code with ISO segment and region, and a file name that would give
\* another ISO code and region
C7_Witness ==
    /\ result.done /\ HasCode /\ CodeIso # <<>> /\ CodeRegion # <<>>
    /\ Contains(BaseName, "_")
    /\ Lower(UpTo(BaseName, {"_"})) \notin {<<>>, CodeIso}
    /\ Lower(UpTo(After(BaseName, "_"), {"_", "-"})) \notin {<<>>, CodeRegion}
    /\ result.out.voice = CodeIso \o <<"-">> \o CodeRegion

\* C8 as stated: without a config code and with "_" in the base name, the
\* ISO code is the lower-cased text before the first "_" and the region the
\* lower-cased text after the first "_" up to its first "-"
C8_Original ==
    result.done /\ NoCode /\ Contains(BaseName, "_") =>
        /\ result.out.parsed_iso = Lower(UpTo(BaseName, {"_"}))
        /\ result.out.region = Lower(UpTo(After(BaseName, "_"), {"-"}))

\* C8 amended: without a config code and with "_" in the base name, the
\* name is split on every "_": the ISO code is the lower-cased text before
\* the first "_" and the region the lower-cased text between the first "_"
\* and the next "_" (or the end of the name), up to its first "-"
C8_FileNameParsing ==
    result.done /\ NoCode /\ Contains(BaseName, "_") =>
        /\ ~result.out.raised
        /\ result.out.parsed_iso = Lower(UpTo(BaseName, {"_"}))
        /\ result.out.region = Lower(UpTo(After(BaseName, "_"), {"_", "-"}))

\* a base name with a second "_" in the text that follows the first "_",
\* before any "-"
C8_Witness ==
    /\ result.done /\ NoCode
    /\ Contains(BaseName, "_")
    /\ Contains(UpTo(After(BaseName, "_"), {"-"}), "_")
    /\ result.out.region # <<>>
    /\ result.out.region # Lower(UpTo(After(BaseName, "_"), {"-"}))

====
